---- MODULE Spec2Model ----
(***************************************************************************)
(* State-invariant verifier of the builtin-actors state tree               *)
(* (actors/state/src/check.rs): Tree::for_each and check_state_invariants. *)
(*                                                                         *)
(* Text (diagnostics, error messages, printed addresses) is modelled as a  *)
(* sequence of string tokens; formatting is concatenation of tokens.       *)
(*                                                                         *)
(* One audit is one behaviour: Init draws the tree, every later step is    *)
(* one entry of Map::for_each (the closure of Tree::for_each and, in it,   *)
(* the callback of check_state_invariants), the last is the return.        *)
(* `visited` and `calls` are history variables: the arguments the callback *)
(* and the kind checkers were called with.                                 *)
(***************************************************************************)
EXTENDS Integers, Sequences, FiniteSets, TLC

\* ------------------------------------------------------------------ bounds
\* Largest number of entries of an audited tree.
MaxEntries == 2

\* ------------------------------------------------------- addresses and keys
\* fvm_shared::address::Protocol, by its byte: ID = 0, Secp256k1 = 1,
\* Actor = 2, BLS = 3.
ProtocolID == 0
ProtocolBytes == {0, 1, 2, 3}

\* The raw byte keys a tree may use, in the order the map iterates them (the
\* order of Map::for_each is a function of the keys alone): an ID address, a
\* key whose protocol byte is unknown, a Secp256k1 address, an ID address.
MapOrder == << <<0, 1>>, <<4, 1>>, <<1, 7>>, <<0, 2>> >>

DecimalStr == <<"0", "1", "2", "3", "4", "5", "6", "7", "8", "9">>

\* Faulty variant of AddressFromBytes: any protocol but ID is rejected.
AddressFromBytes_OnlyID(key) ==
    IF Len(key) < 2
    THEN [ok |-> FALSE, err |-> <<"Invalid address length">>]
    ELSE IF key[1] # 0
         THEN [ok |-> FALSE, err |-> <<"Unknown address protocol">>]
         ELSE [ok |-> TRUE, val |-> [protocol |-> key[1], payload |-> key[2]]]

\* Address::from_bytes(key): an error for a key shorter than two bytes or
\* with an unknown protocol byte, else the address.
AddressFromBytes(key) ==
    IF Len(key) < 2
    THEN [ok |-> FALSE, err |-> <<"Invalid address length">>]
    ELSE IF key[1] \notin ProtocolBytes
         THEN [ok |-> FALSE, err |-> <<"Unknown address protocol">>]
         ELSE [ok |-> TRUE, val |-> [protocol |-> key[1], payload |-> key[2]]]

\* key.protocol()
AddrProtocol(address) == address.protocol

\* format!("{key}"): network prefix, protocol digit, payload.
AddrStr(address) ==
    <<"f", DecimalStr[address.protocol + 1], DecimalStr[address.payload + 1]>>

\* -------------------------------------------------------------- the manifest
Kinds == {"System", "Init", "Cron", "Account", "Power", "Miner", "Market",
          "PaymentChannel", "Multisig", "Reward", "VerifiedRegistry"}

\* Code identities: one per builtin kind, and one the manifest does not know.
KnownCodes ==
    {"cid-system", "cid-init", "cid-cron", "cid-account", "cid-power",
     "cid-miner", "cid-market", "cid-paych", "cid-multisig", "cid-reward",
     "cid-verifreg"}
UnknownCode == "cid-unknown"
Codes == KnownCodes \cup {UnknownCode}

Manifest ==
    [c \in KnownCodes |->
        CASE c = "cid-system"   -> "System"
          [] c = "cid-init"     -> "Init"
          [] c = "cid-cron"     -> "Cron"
          [] c = "cid-account"  -> "Account"
          [] c = "cid-power"    -> "Power"
          [] c = "cid-miner"    -> "Miner"
          [] c = "cid-market"   -> "Market"
          [] c = "cid-paych"    -> "PaymentChannel"
          [] c = "cid-multisig" -> "Multisig"
          [] c = "cid-reward"   -> "Reward"
          [] c = "cid-verifreg" -> "VerifiedRegistry"]

\* manifest.get_by_left(&actor.code): Some(kind), or None.
ManifestGet(code) == IF code \in DOMAIN Manifest THEN Manifest[code] ELSE "None"

\* --------------------------------------------------------- the content store
\* What the blockstore holds under each head: a state blob without findings,
\* a state blob for which the kind's checker reports two findings, nothing at
\* all, and bytes that do not decode.
Heads == {"head-clean", "head-dirty", "head-missing", "head-garbled"}

Store ==
    [h \in Heads |->
        CASE h = "head-clean"   -> [present |-> TRUE,  decodes |-> TRUE,  findings |-> << >>]
          [] h = "head-dirty"   -> [present |-> TRUE,  decodes |-> TRUE,
                                    findings |-> <<"finding-a", "finding-b">>]
          [] h = "head-missing" -> [present |-> FALSE, decodes |-> FALSE, findings |-> << >>]
          [] h = "head-garbled" -> [present |-> TRUE,  decodes |-> FALSE, findings |-> << >>]]

\* stringify!($state) for the state type each kind decodes.
StateTypeName(kind) ==
    CASE kind = "Init"             -> "InitState"
      [] kind = "Cron"             -> "CronState"
      [] kind = "Account"          -> "AccountState"
      [] kind = "Power"            -> "PowerState"
      [] kind = "Miner"            -> "MinerState"
      [] kind = "Market"           -> "MarketState"
      [] kind = "PaymentChannel"   -> "PaychState"
      [] kind = "Multisig"         -> "MultisigState"
      [] kind = "Reward"           -> "RewardState"
      [] kind = "VerifiedRegistry" -> "VerifregState"

\* Faulty variant of GetState: an absent block yields a state instead of an error.
GetState_DefaultsWhenEmpty(actor, stateType) ==
    LET blob == Store[actor.head] IN
    IF blob.present /\ ~blob.decodes
    THEN [ok |-> FALSE, err |-> <<"cbor decode error">>]
    ELSE [ok |-> TRUE,
          val |-> [type |-> stateType, head |-> actor.head,
                   findings |-> blob.findings]]

\* get_state!(tree, actor, $state): store.get_cbor::<$state>(&actor.head)?
\* fails on bytes that do not decode; .ok_or_else(..)? fails on an absent
\* block with "<state type> is empty"; else the decoded state.
GetState(actor, stateType) ==
    LET blob == Store[actor.head] IN
    IF blob.present /\ ~blob.decodes
    THEN [ok |-> FALSE, err |-> <<"cbor decode error">>]
    ELSE IF ~blob.present
         THEN [ok |-> FALSE, err |-> <<stateType, " is empty">>]
         ELSE [ok |-> TRUE,
               val |-> [type |-> stateType, head |-> actor.head,
                        findings |-> blob.findings]]

\* ------------------------------------------------------ MessageAccumulator
\* A scope is its prefix; every scope writes to the one shared buffer (acc).
RootPrefix == << >>

\* acc.with_prefix(p): the child scope's prefix is the parent's followed by p.
WithPrefix(prefix, p) == prefix \o p

\* acc.add(msg): the message, prefixed, goes to the end of the buffer.
Add(buffer, prefix, msg) == Append(buffer, prefix \o msg)

\* acc.add_all(msgs): add each message in order.
RECURSIVE AddAll(_, _, _)
AddAll(buffer, prefix, msgs) ==
    IF msgs = << >> THEN buffer
    ELSE AddAll(Add(buffer, prefix, Head(msgs)), prefix, Tail(msgs))

\* ---------------------------------------------------------- kind checkers
\* The decoded state among the parameters of a checker call.
StateOf(args) == args[CHOOSE i \in 1..Len(args) : args[i].p = "state"].state

\* <kind>::check_state_invariants(args...): deterministic in its parameters;
\* the summary digests them and there is one message per finding of the state.
CheckerResult(kind, args) ==
    [summary |-> [kind |-> kind, from |-> args],
     msgs    |-> [i \in 1..Len(StateOf(args).findings) |->
                     <<StateOf(args).findings[i]>>]]

\* ------------------------------------------------------------------- state
VARIABLES
    tree,                   \* Tree.map, as the sequence of entries for_each meets
    policy,                 \* the policy handed to check_state_invariants
    expected_balance_total, \* the expected total handed to it
    prior_epoch,            \* the prior epoch handed to it
    pc,                     \* "iterating" inside tree.for_each, then "done"
    idx,                    \* position of the entry for_each is at
    result,                 \* what check_state_invariants returns
    acc,                    \* the message buffer of the root accumulator
    total_fil,
    init_summary, cron_summary, account_summaries, power_summary,
    miner_summaries, market_summary, paych_summaries, multisig_summaries,
    reward_summary, verifreg_summary,
    visited,                \* history: the (address, actor) pairs given to f
    calls                   \* history: the kind checker calls made

summaries == <<init_summary, cron_summary, account_summaries, power_summary,
               miner_summaries, market_summary, paych_summaries,
               multisig_summaries, reward_summary, verifreg_summary>>

inputs == <<tree, policy, expected_balance_total, prior_epoch>>

vars == <<inputs, pc, idx, result, acc, total_fil, summaries, visited, calls>>

\* ------------------------------------------------------------------ inputs
\* The head and the balance of an actor: each content of the store and two
\* balances.  The verifier never relates the head of an actor to its balance,
\* so each head comes with one of the balances.
ActorShapes ==
    {[head |-> "head-clean",   balance |-> 1],
     [head |-> "head-dirty",   balance |-> 2],
     [head |-> "head-missing", balance |-> 1],
     [head |-> "head-garbled", balance |-> 2]}

\* struct Actor { code, head, call_seq_num, balance }
Actors ==
    {[code |-> c, head |-> sh.head, call_seq_num |-> 0, balance |-> sh.balance] :
        c \in Codes, sh \in ActorShapes}

\* The map that holds actor content[i] under key MapOrder[i] for the
\* positions i of `positions`, as the sequence of its entries in the map's order.
RECURSIVE TreeOf(_, _, _)
TreeOf(positions, content, from) ==
    IF from > Len(MapOrder) THEN << >>
    ELSE (IF from \in positions
          THEN <<[key |-> MapOrder[from], actor |-> content[from]]>>
          ELSE << >>) \o TreeOf(positions, content, from + 1)

None == << >>
Some(x) == <<x>>
EmptyMap == [a \in {} |-> None]

Init ==
    /\ \E positions \in SUBSET (1..Len(MapOrder)) :
          /\ Cardinality(positions) <= MaxEntries
          /\ \E content \in [positions -> Actors] :
                tree = TreeOf(positions, content, 1)
    /\ policy = "policy"
    /\ expected_balance_total = 2
    /\ prior_epoch = 7
    /\ pc = "iterating"
    /\ idx = 1
    /\ result = [tag |-> "Running"]
    /\ acc = << >>
    /\ total_fil = 0
    /\ init_summary = None
    /\ cron_summary = None
    /\ account_summaries = << >>
    /\ power_summary = None
    /\ miner_summaries = EmptyMap
    /\ market_summary = None
    /\ paych_summaries = << >>
    /\ multisig_summaries = << >>
    /\ reward_summary = None
    /\ verifreg_summary = None
    /\ visited = << >>
    /\ calls = << >>

\* --------------------------------------------------------------- operations
Ok == [tag |-> "Ok"]
Err(e) == [tag |-> "Err", err |-> e]

\* .map_err(|e| anyhow!("Failed iterating map: {}", e))
ForEachError(e) == <<"Failed iterating map: ">> \o e

\* Faulty variant of UnknownCodeError: the address is left out.
UnknownCodeError_NoAddress(actor, address) ==
    <<"unexpected actor code CID ", actor.code>>

\* bail!("unexpected actor code CID {} for address {}", actor.code, key)
UnknownCodeError(actor, address) ==
    <<"unexpected actor code CID ", actor.code, " for address ">> \o AddrStr(address)

\* Faulty variant of EntryScope: no space after the address.
EntryScope_NoSeparator(address) == WithPrefix(RootPrefix, AddrStr(address))

\* let acc = acc.with_prefix(format!("{key} "))
EntryScope(address) == WithPrefix(RootPrefix, AddrStr(address) \o <<" ">>)

\* Faulty variant of ProtocolCheck: the message goes to the root scope.
ProtocolCheck_Unscoped(buffer, address) ==
    IF AddrProtocol(address) # ProtocolID
    THEN Add(buffer, RootPrefix,
             <<"unexpected address protocol in state tree root: ">> \o AddrStr(address))
    ELSE buffer

\* if key.protocol() != Protocol::ID { acc.add(format!("unexpected ...: {key}")) }
ProtocolCheck(buffer, address) ==
    IF AddrProtocol(address) # ProtocolID
    THEN Add(buffer, EntryScope(address),
             <<"unexpected address protocol in state tree root: ">> \o AddrStr(address))
    ELSE buffer

\* The prefix each match arm gives acc.with_prefix.
KindPrefix(kind) ==
    CASE kind = "Init"             -> <<"init: ">>
      [] kind = "Cron"             -> <<"cron: ">>
      [] kind = "Account"          -> <<"account: ">>
      [] kind = "Power"            -> <<"power: ">>
      [] kind = "Miner"            -> <<"miner: ">>
      [] kind = "Market"           -> <<"market: ">>
      [] kind = "PaymentChannel"   -> <<"paych: ">>
      [] kind = "Multisig"         -> <<"multisig: ">>
      [] kind = "Reward"           -> <<"reward: ">>
      [] kind = "VerifiedRegistry" -> <<"verifreg: ">>

\* The parameters each match arm hands its kind's check_state_invariants.
PState(state)   == [p |-> "state", state |-> state]
PStore          == [p |-> "store"]
PPolicy         == [p |-> "policy", policy |-> policy]
PKey(address)   == [p |-> "key", key |-> address]
\* Faulty variant of PBalance: the running total instead of the balance.
PBalance_RunningTotal(actor) == [p |-> "balance", amount |-> total_fil]
PBalance(actor) == [p |-> "balance", amount |-> actor.balance]
PPriorEpoch     == [p |-> "prior_epoch", epoch |-> prior_epoch]

CheckerArgs(kind, state, address, actor) ==
    CASE kind = "Init"             -> <<PState(state), PStore>>
      [] kind = "Cron"             -> <<PState(state)>>
      [] kind = "Account"          -> <<PState(state), PKey(address)>>
      [] kind = "Power"            -> <<PPolicy, PState(state), PStore>>
      [] kind = "Miner"            -> <<PPolicy, PState(state), PStore, PBalance(actor)>>
      [] kind = "Market"           -> <<PState(state), PStore, PBalance(actor), PPriorEpoch>>
      [] kind = "PaymentChannel"   -> <<PState(state), PStore, PBalance(actor)>>
      [] kind = "Multisig"         -> <<PState(state), PStore>>
      [] kind = "Reward"           -> <<PState(state), PPriorEpoch, PBalance(actor)>>
      [] kind = "VerifiedRegistry" -> <<PState(state), PStore>>

\* Faulty variant of SetSummary: a summary already held is kept.
SetSummary_KeepsFirst(old, summary) == IF old = None THEN Some(summary) ELSE old
\* x_summary = Some(summary)
SetSummary(old, summary) == Some(summary)
\* Faulty variant of PushSummary: the summary goes to the front.
PushSummary_AtFront(list, summary) == <<summary>> \o list
\* x_summaries.push(summary)
PushSummary(list, summary) == Append(list, summary)
\* miner_summaries.insert(key.clone(), summary)
InsertSummary(map, address, summary) ==
    [a \in DOMAIN map \cup {address} |-> IF a = address THEN summary ELSE map[a]]

\* Map::for_each is at an entry: the closure of Tree::for_each decodes its key.
AtEntry == pc = "iterating" /\ idx <= Len(tree)
CurActor == tree[idx].actor
CurAddress == AddressFromBytes(tree[idx].key)

\* Faulty variant of KeyDecodeFails: the entry is skipped, the traversal goes on.
KeyDecodeFails_SkipsEntry ==
    /\ AtEntry
    /\ ~CurAddress.ok
    /\ idx' = idx + 1
    /\ UNCHANGED <<inputs, pc, result, acc, total_fil, summaries, visited, calls>>

\* let address = Address::from_bytes(key)?  fails: for_each returns the error.
KeyDecodeFails ==
    /\ AtEntry
    /\ ~CurAddress.ok
    /\ pc' = "done"
    /\ result' = Err(ForEachError(CurAddress.err))
    /\ UNCHANGED <<inputs, idx, acc, total_fil, summaries, visited, calls>>

\* The callback on an entry whose kind is `kind`, a kind with a state: the
\* protocol check, the balance, the state, the checker, its messages and its
\* summary; a state that cannot be had ends the traversal.
Visit(kind) ==
    /\ AtEntry
    /\ CurAddress.ok
    /\ ManifestGet(CurActor.code) = kind
    /\ LET address == CurAddress.val
           actor   == CurActor
           scope   == EntryScope(address)
           checked == ProtocolCheck(acc, address)
           got     == GetState(actor, StateTypeName(kind))
           args    == CheckerArgs(kind, got.val, address, actor)
           r       == CheckerResult(kind, args)
           on(k, new, old) == IF kind = k THEN new ELSE old
       IN  /\ visited' = Append(visited, [address |-> address, actor |-> actor])
           /\ total_fil' = total_fil + actor.balance
           /\ IF ~got.ok
              THEN /\ acc' = checked
                   /\ pc' = "done"
                   /\ result' = Err(ForEachError(got.err))
                   /\ UNCHANGED <<inputs, idx, summaries, calls>>
              ELSE /\ acc' = AddAll(checked, WithPrefix(scope, KindPrefix(kind)), r.msgs)
                   /\ calls' = Append(calls, [kind |-> kind, args |-> args])
                   /\ init_summary' = on("Init", SetSummary(init_summary, r.summary), init_summary)
                   /\ cron_summary' = on("Cron", SetSummary(cron_summary, r.summary), cron_summary)
                   /\ account_summaries' =
                        on("Account", PushSummary(account_summaries, r.summary), account_summaries)
                   /\ power_summary' = on("Power", SetSummary(power_summary, r.summary), power_summary)
                   /\ miner_summaries' =
                        on("Miner", InsertSummary(miner_summaries, address, r.summary), miner_summaries)
                   /\ market_summary' = on("Market", SetSummary(market_summary, r.summary), market_summary)
                   /\ paych_summaries' =
                        on("PaymentChannel", PushSummary(paych_summaries, r.summary), paych_summaries)
                   /\ multisig_summaries' =
                        on("Multisig", PushSummary(multisig_summaries, r.summary), multisig_summaries)
                   /\ reward_summary' = on("Reward", SetSummary(reward_summary, r.summary), reward_summary)
                   /\ verifreg_summary' =
                        on("VerifiedRegistry", SetSummary(verifreg_summary, r.summary), verifreg_summary)
                   /\ idx' = idx + 1
                   /\ UNCHANGED <<inputs, pc, result>>

\* Some(Type::System) => ()
VisitSystem ==
    /\ AtEntry
    /\ CurAddress.ok
    /\ ManifestGet(CurActor.code) = "System"
    /\ visited' = Append(visited, [address |-> CurAddress.val, actor |-> CurActor])
    /\ acc' = ProtocolCheck(acc, CurAddress.val)
    /\ total_fil' = total_fil + CurActor.balance
    /\ idx' = idx + 1
    /\ UNCHANGED <<inputs, pc, result, summaries, calls>>

VisitInit     == Visit("Init")
VisitCron     == Visit("Cron")
VisitAccount  == Visit("Account")
VisitPower    == Visit("Power")
VisitMiner    == Visit("Miner")
VisitMarket   == Visit("Market")
VisitPaych    == Visit("PaymentChannel")
VisitMultisig == Visit("Multisig")
VisitReward   == Visit("Reward")
VisitVerifreg == Visit("VerifiedRegistry")

\* None => bail!(...)
VisitUnknown ==
    /\ AtEntry
    /\ CurAddress.ok
    /\ ManifestGet(CurActor.code) = "None"
    /\ visited' = Append(visited, [address |-> CurAddress.val, actor |-> CurActor])
    /\ acc' = ProtocolCheck(acc, CurAddress.val)
    /\ total_fil' = total_fil + CurActor.balance
    /\ pc' = "done"
    /\ result' = Err(ForEachError(UnknownCodeError(CurActor, CurAddress.val)))
    /\ UNCHANGED <<inputs, idx, summaries, calls>>

\* Map::for_each has met every entry: for_each, and with it
\* check_state_invariants, returns Ok(()).
ForEachDone ==
    /\ pc = "iterating"
    /\ idx > Len(tree)
    /\ pc' = "done"
    /\ result' = Ok
    /\ UNCHANGED <<inputs, idx, acc, total_fil, summaries, visited, calls>>

Next ==
    \/ KeyDecodeFails
    \/ VisitSystem
    \/ VisitInit
    \/ VisitCron
    \/ VisitAccount
    \/ VisitPower
    \/ VisitMiner
    \/ VisitMarket
    \/ VisitPaych
    \/ VisitMultisig
    \/ VisitReward
    \/ VisitVerifreg
    \/ VisitUnknown
    \/ ForEachDone

Spec == Init /\ [][Next]_vars

\* ====================================================================
\* Properties.  The operators below restate, from the inputs alone, what an
\* audit of `tree` has to do; the claims compare the state the operations
\* above reach with them.
\* ====================================================================
Contains(text, part) ==
    \E k \in 0..(Len(text) - Len(part)) : SubSeq(text, k + 1, k + Len(part)) = part

StartsWith(text, part) ==
    Len(part) <= Len(text) /\ SubSeq(text, 1, Len(part)) = part

\* The key is a well-formed address, and that address.
KeyIsAddress(key) == Len(key) >= 2 /\ key[1] \in {0, 1, 2, 3}
AddressOf(key) == [protocol |-> key[1], payload |-> key[2]]
AddressText(key) == <<"f", DecimalStr[key[1] + 1], DecimalStr[key[2] + 1]>>
KeyIsID(key) == key[1] = 0

InManifest(e) == e.actor.code \in DOMAIN Manifest
KindOf(e) == Manifest[e.actor.code]
HeadResolves(e) == Store[e.actor.head].present /\ Store[e.actor.head].decodes
\* The entry reaches a kind checker.
Dispatched(e) ==
    KeyIsAddress(e.key) /\ InManifest(e) /\ KindOf(e) # "System" /\ HeadResolves(e)

\* The sum of the balances of the entries of t.
RECURSIVE SumBalances(_)
SumBalances(t) ==
    IF t = << >> THEN 0 ELSE Head(t).actor.balance + SumBalances(Tail(t))

\* The three fatal conditions of an entry.
BadKey(e) == ~KeyIsAddress(e.key)
UnknownKind(e) == KeyIsAddress(e.key) /\ ~InManifest(e)
NoState(e) ==
    KeyIsAddress(e.key) /\ InManifest(e) /\ KindOf(e) # "System" /\ ~HeadResolves(e)
Fatal(e) == BadKey(e) \/ UnknownKind(e) \/ NoState(e)

\* Position of the first fatal entry of t, 0 when there is none.
FirstFatal(t) ==
    IF \E i \in 1..Len(t) : Fatal(t[i])
    THEN CHOOSE i \in 1..Len(t) : Fatal(t[i]) /\ \A j \in 1..(i - 1) : ~Fatal(t[j])
    ELSE 0

\* The entries of t before position i.
Before(t, i) == SubSeq(t, 1, i - 1)

\* The label of each kind in the report.
KindLabel ==
    [k \in Kinds \ {"System"} |->
        CASE k = "Init"             -> "init: "
          [] k = "Cron"             -> "cron: "
          [] k = "Account"          -> "account: "
          [] k = "Power"            -> "power: "
          [] k = "Miner"            -> "miner: "
          [] k = "Market"           -> "market: "
          [] k = "PaymentChannel"   -> "paych: "
          [] k = "Multisig"         -> "multisig: "
          [] k = "Reward"           -> "reward: "
          [] k = "VerifiedRegistry" -> "verifreg: "]

\* The diagnostic of the address-protocol check on the entry.
ProtocolDiagnostic(e) ==
    AddressText(e.key)
    \o <<" ", "unexpected address protocol in state tree root: ">>
    \o AddressText(e.key)

\* The diagnostics an entry with a well-formed key gives the report: the
\* address-protocol diagnostic, then the findings of its kind's checker.
EntryReport(e) ==
    (IF KeyIsID(e.key) THEN << >> ELSE <<ProtocolDiagnostic(e)>>)
    \o (IF Dispatched(e)
        THEN [i \in 1..Len(Store[e.actor.head].findings) |->
                AddressText(e.key)
                \o <<" ", KindLabel[KindOf(e)], Store[e.actor.head].findings[i]>>]
        ELSE << >>)

RECURSIVE ReportOf(_)
ReportOf(t) == IF t = << >> THEN << >> ELSE EntryReport(Head(t)) \o ReportOf(Tail(t))

\* How many summaries the verifier holds.
StoredSummaries ==
    Len(init_summary) + Len(cron_summary) + Len(account_summaries)
    + Len(power_summary) + Cardinality(DOMAIN miner_summaries)
    + Len(market_summary) + Len(paych_summaries) + Len(multisig_summaries)
    + Len(reward_summary) + Len(verifreg_summary)


\* --------------------------------------------------------------------
\* C1: when the traversal reaches an entry whose code identity the manifest
\* does not know (the first fatal entry of the tree), the audit ends at once
\* with an error that names the entry's address and its code identity: the
\* callback ran on no later entry, the only checker calls and summaries are
\* those of the entries before it, and the result is the error alone.
C1_UnknownCodeAborts ==
    pc = "done" =>
        LET i == FirstFatal(tree) IN
        (i # 0 /\ UnknownKind(tree[i]))
        => /\ result.tag = "Err"
           /\ DOMAIN result = {"tag", "err"}
           /\ Contains(result.err, AddressText(tree[i].key))
           /\ Contains(result.err, <<tree[i].actor.code>>)
           /\ Len(visited) = i
           /\ Len(calls) = Len(SelectSeq(Before(tree, i), Dispatched))
           /\ StoredSummaries <= Len(calls)

\* An audit ended by an unknown code identity at its first entry, with an
\* entry after it.
C1_Witness ==
    /\ pc = "done"
    /\ Len(tree) >= 2
    /\ UnknownKind(tree[1])
    /\ Dispatched(tree[2])
    /\ result.tag = "Err"

\* --------------------------------------------------------------------
\* C3: an audit of a tree in which every key is an address, every code
\* identity is in the manifest and every head of a kind with a state resolves
\* returns Ok, whatever diagnostics it collected.
C3_SoundTreeCompletes ==
    (pc = "done" /\ FirstFatal(tree) = 0) => result.tag = "Ok"

\* A completed audit that collected diagnostics of the address-protocol check
\* and of a kind checker, and whose total differs from the expected one.
C3_Witness ==
    /\ pc = "done"
    /\ FirstFatal(tree) = 0
    /\ result.tag = "Ok"
    /\ Len(acc) >= 3
    /\ \E i \in 1..Len(tree) : ~KeyIsID(tree[i].key) /\ Dispatched(tree[i])
    /\ total_fil # expected_balance_total

\* --------------------------------------------------------------------
\* C4: after an audit that returns Ok the buffer of the root accumulator
\* holds every diagnostic once, with its address and kind prefixes, in the
\* order of the traversal.
C4_ReportComplete ==
    (pc = "done" /\ result.tag = "Ok") => acc = ReportOf(tree)

\* A completed audit of two entries, each giving the report several
\* diagnostics, one of them of the Miner checker.
C4_Witness ==
    /\ pc = "done"
    /\ result.tag = "Ok"
    /\ Len(tree) = 2
    /\ Len(EntryReport(tree[1])) >= 2
    /\ Len(EntryReport(tree[2])) >= 2
    /\ \E i \in 1..Len(acc) : Contains(acc[i], <<"miner: ">>)

\* --------------------------------------------------------------------
\* C5: when the traversal reaches an entry of a known kind other than System
\* whose head the store cannot give a state for (nothing stored, or bytes
\* that do not decode), the audit ends there with an error, without a call of
\* that kind's checker and without a summary for the entry; the head of a
\* System actor is never resolved, so an audit never ends at a System entry
\* and a tree whose only unresolvable heads are those of System actors is
\* audited to the end.
C5_MissingStateAborts ==
    pc = "done" =>
        /\ LET i == FirstFatal(tree) IN
           (i # 0 /\ NoState(tree[i]))
           => /\ result.tag = "Err"
              /\ idx = i
              /\ Len(visited) = i
              /\ Len(calls) = Len(SelectSeq(Before(tree, i), Dispatched))
              /\ StoredSummaries <= Len(calls)
        /\ result.tag = "Err"
           => ~(KeyIsAddress(tree[idx].key) /\ InManifest(tree[idx])
                /\ KindOf(tree[idx]) = "System")
        /\ (\A i \in 1..Len(tree) :
              /\ KeyIsAddress(tree[i].key) /\ InManifest(tree[i])
              /\ (HeadResolves(tree[i]) \/ KindOf(tree[i]) = "System"))
           => (result.tag = "Ok" /\ Len(visited) = Len(tree))

\* An audit ended by a missing state at its second entry, after a System
\* actor whose head is as unresolvable.
C5_Witness ==
    /\ pc = "done"
    /\ Len(tree) = 2
    /\ KeyIsAddress(tree[1].key) /\ InManifest(tree[1]) /\ KindOf(tree[1]) = "System"
    /\ ~HeadResolves(tree[1])
    /\ NoState(tree[2])
    /\ tree[2].actor.head = "head-missing"
    /\ result.tag = "Err"

\* --------------------------------------------------------------------
\* C6: every entry the callback ran on whose address is not an ID address has
\* exactly one diagnostic in the buffer that is scoped to the address and
\* holds the address and the phrase "unexpected address protocol in state
\* tree root"; the entry's balance is in the total all the same, it reaches
\* its kind's checker all the same, and the audit does not end at it unless
\* the entry is fatal by itself.
IsProtocolDiagnosticOf(msg, key) ==
    /\ StartsWith(msg, AddressText(key) \o <<" ">>)
    /\ Contains(SubSeq(msg, Len(AddressText(key)) + 2, Len(msg)),
                <<"unexpected address protocol in state tree root: ">>)
    /\ Contains(SubSeq(msg, Len(AddressText(key)) + 2, Len(msg)), AddressText(key))

C6_NonIDAddressReported ==
    /\ total_fil = SumBalances(SubSeq(tree, 1, Len(visited)))
    /\ Len(calls) = Len(SelectSeq(SubSeq(tree, 1, Len(visited)), Dispatched))
    /\ \A i \in 1..Len(visited) :
          /\ Cardinality({j \in 1..Len(acc) : IsProtocolDiagnosticOf(acc[j], tree[i].key)})
                = IF KeyIsID(tree[i].key) THEN 0 ELSE 1
          /\ (~KeyIsID(tree[i].key) /\ ~Fatal(tree[i])) => i < idx

\* A completed audit of a non-ID entry with a balance that reached its
\* checker, then an ID entry.
C6_Witness ==
    /\ pc = "done"
    /\ result.tag = "Ok"
    /\ Len(tree) = 2
    /\ ~KeyIsID(tree[1].key)
    /\ Dispatched(tree[1])
    /\ tree[1].actor.balance = 2
    /\ Len(calls) = 2

\* --------------------------------------------------------------------
\* C7: the callback of for_each runs on the entries of the map in turn, each
\* once, with the key decoded; with no fatal entry it runs on all of them and
\* for_each returns Ok; at the first entry whose key is not an address, or on
\* which the callback fails, the traversal stops and for_each returns an error.
C7_ForEachVisitsEachOnce ==
    /\ Len(visited) <= Len(tree)
    /\ \A i \in 1..Len(visited) :
          visited[i] = [address |-> AddressOf(tree[i].key), actor |-> tree[i].actor]
    /\ pc = "iterating" => (Len(visited) = idx - 1 /\ result.tag = "Running")
    /\ pc = "done" =>
          LET i == FirstFatal(tree) IN
          IF i = 0
          THEN Len(visited) = Len(tree) /\ result.tag = "Ok"
          ELSE /\ result.tag = "Err"
               /\ StartsWith(result.err, <<"Failed iterating map: ">>)
               /\ idx = i
               /\ Len(visited) = IF BadKey(tree[i]) THEN i - 1 ELSE i

\* A traversal stopped at its first entry by a key that is no address, an
\* entry the callback could have run on behind it.
C7_Witness ==
    /\ pc = "done"
    /\ Len(tree) = 2
    /\ BadKey(tree[1])
    /\ ~Fatal(tree[2])
    /\ visited = << >>
    /\ result.tag = "Err"

\* --------------------------------------------------------------------
\* What the audit owes each entry that reaches a checker.
\* The entries the callback ran on, and those of them that reached the
\* checker of kind k.
Met == SubSeq(tree, 1, Len(visited))
ReachedChecker(e, k) == Dispatched(e) /\ KindOf(e) = k
MetOfKind(k) == SelectSeq(Met, LAMBDA e : ReachedChecker(e, k))
\* Entry i is the last entry met that reached the checker of its kind.
LastOfItsKind(i) ==
    /\ Dispatched(tree[i])
    /\ \A j \in (i + 1)..Len(visited) : ~ReachedChecker(tree[j], KindOf(tree[i]))
\* Two entries met reached the checker of the same singleton kind.
Repeated(k) ==
    \E i, j \in 1..Len(visited) :
        i < j /\ ReachedChecker(tree[i], k) /\ ReachedChecker(tree[j], k)

DecodedState(e) ==
    [type |-> StateTypeName(KindOf(e)), head |-> e.actor.head,
     findings |-> Store[e.actor.head].findings]

AState(e)   == [p |-> "state", state |-> DecodedState(e)]
AStore      == [p |-> "store"]
APolicy     == [p |-> "policy", policy |-> policy]
AKey(e)     == [p |-> "key", key |-> AddressOf(e.key)]
ABalance(e) == [p |-> "balance", amount |-> e.actor.balance]
AEpoch      == [p |-> "prior_epoch", epoch |-> prior_epoch]

\* The parameters of the call for entry e; `initArgs` are those of an Init actor.
ArgsWith(e, initArgs) ==
    CASE KindOf(e) = "Init"             -> initArgs
      [] KindOf(e) = "Cron"             -> <<AState(e)>>
      [] KindOf(e) = "Account"          -> <<AState(e), AKey(e)>>
      [] KindOf(e) = "Power"            -> <<APolicy, AState(e), AStore>>
      [] KindOf(e) = "Miner"            -> <<APolicy, AState(e), AStore, ABalance(e)>>
      [] KindOf(e) = "Market"           -> <<AState(e), AStore, ABalance(e), AEpoch>>
      [] KindOf(e) = "PaymentChannel"   -> <<AState(e), AStore, ABalance(e)>>
      [] KindOf(e) = "Multisig"         -> <<AState(e), AStore>>
      [] KindOf(e) = "Reward"           -> <<AState(e), AEpoch, ABalance(e)>>
      [] KindOf(e) = "VerifiedRegistry" -> <<AState(e), AStore>>

ArgsOf(e) == ArgsWith(e, <<AState(e), AStore>>)
SummaryOf(e) == [kind |-> KindOf(e), from |-> ArgsOf(e)]
SummariesOf(es) == [j \in 1..Len(es) |-> SummaryOf(es[j])]

SingletonKinds == {"Init", "Cron", "Power", "Market", "Reward", "VerifiedRegistry"}
ListKinds == {"Account", "PaymentChannel", "Multisig"}

Slot(k) ==
    CASE k = "Init"             -> init_summary
      [] k = "Cron"             -> cron_summary
      [] k = "Power"            -> power_summary
      [] k = "Market"           -> market_summary
      [] k = "Reward"           -> reward_summary
      [] k = "VerifiedRegistry" -> verifreg_summary
      [] k = "Account"          -> account_summaries
      [] k = "PaymentChannel"   -> paych_summaries
      [] k = "Multisig"         -> multisig_summaries

\* --------------------------------------------------------------------
\* C9: after a traversal without fatal error the list of each of Account,
\* PaymentChannel and Multisig holds the summaries of the actors of that kind
\* in the tree, one each, in the order met; the Miner map holds one entry for
\* each Miner actor, under the actor's address; nothing else but one summary
\* for each singleton kind met is held, so a System actor adds none.
C9_SummariesPerActor ==
    (pc = "done" /\ result.tag = "Ok") =>
    LET miners == MetOfKind("Miner") IN
    /\ \A k \in ListKinds : Slot(k) = SummariesOf(MetOfKind(k))
    /\ DOMAIN miner_summaries = {AddressOf(miners[j].key) : j \in 1..Len(miners)}
    /\ Cardinality(DOMAIN miner_summaries) = Len(miners)
    /\ \A j \in 1..Len(miners) :
          miner_summaries[AddressOf(miners[j].key)] = SummaryOf(miners[j])
    /\ StoredSummaries
          = Len(account_summaries) + Len(paych_summaries) + Len(multisig_summaries)
            + Len(miners)
            + Cardinality({k \in SingletonKinds : MetOfKind(k) # << >>})

\* A completed audit of two Account actors: two summaries, in order.
C9_Witness ==
    /\ pc = "done"
    /\ result.tag = "Ok"
    /\ Len(MetOfKind("Account")) = 2
    /\ Len(account_summaries) = 2
    /\ account_summaries[1] # account_summaries[2]

\* --------------------------------------------------------------------
\* C10, as claimed: each checker call has the parameters the claim lists for
\* its kind and no others: Init and Cron the state alone, Account the state
\* and its address, Power policy, state and store, Miner policy, state, store
\* and balance, Market state, store, balance and prior epoch, PaymentChannel
\* state, store and balance, Reward state, prior epoch and balance.
C10_ParametersAsClaimed ==
    LET es == SelectSeq(Met, Dispatched) IN
    /\ Len(calls) = Len(es)
    /\ \A j \in 1..Len(calls) :
          /\ calls[j].kind = KindOf(es[j])
          /\ calls[j].args = ArgsWith(es[j], <<AState(es[j])>>)

\* C10, amended: as claimed, except that the Init checker is handed the store
\* besides the state.
C10_ParametersPassed ==
    LET es == SelectSeq(Met, Dispatched) IN
    /\ Len(calls) = Len(es)
    /\ \A j \in 1..Len(calls) :
          /\ calls[j].kind = KindOf(es[j])
          /\ calls[j].args = ArgsOf(es[j])

\* An audit that called the Init checker and then the Miner checker, for
\* actors of different balance.
C10_Witness ==
    /\ pc = "done"
    /\ Len(calls) = 2
    /\ calls[1].kind = "Init"
    /\ calls[2].kind = "Miner"
    /\ tree[1].actor.balance # tree[2].actor.balance

\* --------------------------------------------------------------------
\* The diagnostics in the buffer beyond those the entries met account for.
OtherDiagnostics == Len(acc) - Len(ReportOf(Met))

\* C8, as claimed: each singleton kind has at most one summary at every point
\* of the traversal, and once a second actor of the same singleton kind has
\* been met a diagnostic flags it, the traversal going on.
C8_SecondSingletonFlagged ==
    \A k \in SingletonKinds :
        /\ Len(Slot(k)) <= 1
        /\ Repeated(k)
              => /\ OtherDiagnostics >= 1
                 /\ \A i \in 1..Len(visited) : Dispatched(tree[i]) => idx > i

\* C8, amended: each singleton kind has at most one summary at every point of
\* the traversal: that of the actor of the kind met last.  A second actor of
\* the kind replaces the summary of the first; the buffer then holds the
\* diagnostics of the entries met and no other, and the traversal goes on.
C8_SecondSingletonReplaces ==
    /\ \A k \in SingletonKinds :
          /\ Len(Slot(k)) <= 1
          /\ Slot(k) # << >> => \E i \in 1..Len(visited) : ReachedChecker(tree[i], k)
          /\ Repeated(k) => OtherDiagnostics = 0
    /\ \A i \in 1..Len(visited) :
          /\ (LastOfItsKind(i) /\ KindOf(tree[i]) \in SingletonKinds)
                => Slot(KindOf(tree[i])) = <<SummaryOf(tree[i])>>
          /\ Dispatched(tree[i]) => idx > i

\* An audit of two Init actors of different state: the summary is the second's.
C8_Witness ==
    /\ pc = "done"
    /\ result.tag = "Ok"
    /\ Len(MetOfKind("Init")) = 2
    /\ SummaryOf(tree[1]) # SummaryOf(tree[2])
    /\ init_summary = <<SummaryOf(tree[2])>>

\* --------------------------------------------------------------------
\* C2: an audit that returns Ok has no total-balance diagnostic when the
\* expected total is the sum of the balances of the tree, and exactly one
\* when the expected total is that sum plus one.
C2_Conservation ==
    (pc = "done" /\ result.tag = "Ok")
    => /\ expected_balance_total = SumBalances(tree) => OtherDiagnostics = 0
       /\ expected_balance_total = SumBalances(tree) + 1 => OtherDiagnostics = 1

====
